---- MODULE Spec2Model ----
(***************************************************************************)
(* ImageRenamer.rename of rename_to_sequential.py: the recursive renaming   *)
(* of the image files of a directory tree to zero-padded sequential names.  *)
(*                                                                         *)
(* A file name is a sequence of one-character strings, a path is a record  *)
(* [dir, name], and the disk maps every directory to the entries it holds. *)
(* One run of rename is cut into its steps: validation, the confirmation   *)
(* prompt, one step of os.walk, and for every file of a batch the skip,    *)
(* the displacement of the occupant of the target, the abort, and the      *)
(* final rename.                                                           *)
(***************************************************************************)
EXTENDS Integers, Sequences, FiniteSets, TLC

(***************************************************************************)
(* Bounds of the model.                                                    *)
(***************************************************************************)
\* most files the root directory holds when rename starts
MaxFiles == 3
\* how many times in succession rename is run on the same tree
MaxRuns == 2

(***************************************************************************)
(* Characters and strings.                                                 *)
(***************************************************************************)
DigitChars == <<"0", "1", "2", "3", "4", "5", "6", "7", "8", "9">>

IsDigit(c) == \E k \in 1..10 : DigitChars[k] = c

DigitVal(c) == (CHOOSE k \in 1..10 : DigitChars[k] = c) - 1

\* the code point of a character, as str comparison orders them
Ord(c) ==
    CASE c = "-" -> 45
      [] c = "." -> 46
      [] IsDigit(c) -> 48 + DigitVal(c)
      [] c = "a" -> 97
      [] c = "b" -> 98
      [] c = "j" -> 106
      [] c = "p" -> 112
      [] c = "t" -> 116
      [] c = "x" -> 120
      [] c = "y" -> 121

\* str.endswith(suffix)
EndsWith(s, suf) ==
    /\ Len(suf) <= Len(s)
    /\ SubSeq(s, Len(s) - Len(suf) + 1, Len(s)) = suf

\* filename.endswith(self.extensions): a tuple of suffixes matches when one does
EndsWithAny(s, sufs) == \E suf \in sufs : EndsWith(s, suf)

\* os.path.splitext(name)[1]: from the last dot on, unless only dots precede it
Splitext(s) ==
    LET dots == {k \in 1..Len(s) : s[k] = "."}
        dot == IF dots = {} THEN 0 ELSE CHOOSE k \in dots : \A m \in dots : m <= k
    IN  IF dot = 0 \/ (\A k \in 1..(dot - 1) : s[k] = ".")
        THEN <<>>
        ELSE SubSeq(s, dot, Len(s))

\* str(n) for n >= 0
RECURSIVE DecStr(_)
DecStr(n) ==
    IF n < 10 THEN <<DigitChars[n + 1]>>
    ELSE DecStr(n \div 10) \o <<DigitChars[(n % 10) + 1]>>

RECURSIVE ZeroFill(_, _)
ZeroFill(s, width) ==
    IF Len(s) >= width THEN s ELSE ZeroFill(<<"0">> \o s, width)

\* f'{j:0{digit}}' cut to the width
FormatIndexTruncated(j, width) ==
    SubSeq(ZeroFill(DecStr(j), width), 1, width)

\* f'{j:0{digit}}': sign-aware zero padding to a minimum width, never truncating
FormatIndex(j, width) ==
    IF j >= 0 THEN ZeroFill(DecStr(j), width)
    ELSE <<"-">> \o ZeroFill(DecStr(0 - j), width - 1)

(***************************************************************************)
(* utils.natural_keys: the string split into runs of non-digits and runs   *)
(* of digits, alternating and starting with a (possibly empty) run of      *)
(* non-digits; digit runs compare as integers, the others as text.         *)
(***************************************************************************)
\* length of the longest prefix of s whose characters are all digits (dig) or all not
RunLen(s, dig) ==
    CHOOSE n \in 0..Len(s) :
        /\ \A k \in 1..n : IsDigit(s[k]) = dig
        /\ n = Len(s) \/ IsDigit(s[n + 1]) # dig

RECURSIVE SplitRuns(_, _)
SplitRuns(s, dig) ==
    LET n == RunLen(s, dig)
        run == SubSeq(s, 1, n)
        rest == SubSeq(s, n + 1, Len(s))
    IN  IF ~dig /\ n = Len(s) THEN <<run>>
        ELSE <<run>> \o SplitRuns(rest, ~dig)

\* the runs of a name: odd positions are text, even positions are digit runs
natural_keys(s) == SplitRuns(s, FALSE)

\* int(text) of a run of digits
RECURSIVE atoi(_)
atoi(run) ==
    IF run = <<>> THEN 0
    ELSE 10 * atoi(SubSeq(run, 1, Len(run) - 1)) + DigitVal(run[Len(run)])

\* a < b for two strings, by code point, a proper prefix being smaller
RECURSIVE TextLess(_, _)
TextLess(a, b) ==
    IF b = <<>> THEN FALSE
    ELSE IF a = <<>> THEN TRUE
    ELSE IF a[1] # b[1] THEN Ord(a[1]) < Ord(b[1])
    ELSE TextLess(Tail(a), Tail(b))

\* ka < kb for two keys, compared as Python compares lists, from element i on
RECURSIVE KeyLessFrom(_, _, _)
KeyLessFrom(ka, kb, i) ==
    IF i > Len(kb) THEN FALSE
    ELSE IF i > Len(ka) THEN TRUE
    ELSE IF i % 2 = 1
         THEN IF ka[i] = kb[i] THEN KeyLessFrom(ka, kb, i + 1)
              ELSE TextLess(ka[i], kb[i])
         ELSE IF atoi(ka[i]) = atoi(kb[i]) THEN KeyLessFrom(ka, kb, i + 1)
              ELSE atoi(ka[i]) < atoi(kb[i])

NaturalLess(a, b) == KeyLessFrom(natural_keys(a), natural_keys(b), 1)

(***************************************************************************)
(* The directory tree and the file system.                                 *)
(***************************************************************************)
\* the directory rename is started on, and its one subdirectory
Root == "root"
Sub == "root/sub"
Dirs == {Root, Sub}

\* os.path.join(current_dir, filename)
Join(dir, name) == [dir |-> dir, name |-> name]

\* os.path.exists(path)
Exists(dk, path) == path.name \in DOMAIN dk[path.dir]

\* os.rename(src, dst), src existing: the entry moves, replacing what dst held
OsRename(dk, src, dst) ==
    LET e == dk[src.dir][src.name]
        gone == [d \in Dirs |->
                    IF d = src.dir
                    THEN [n \in DOMAIN dk[d] \ {src.name} |-> dk[d][n]]
                    ELSE dk[d]]
    IN  [d \in Dirs |->
            IF d = dst.dir
            THEN [n \in DOMAIN gone[d] \cup {dst.name} |->
                     IF n = dst.name THEN e ELSE gone[d][n]]
            ELSE gone[d]]

\* os.rename raises when src is missing or when dst is a directory
RenameRaises(dk, src, dst) ==
    \/ ~Exists(dk, src)
    \/ Exists(dk, dst) /\ dk[dst.dir][dst.name].kind = "dir"

\* the names of the plain files of a directory, as os.walk lists them
Files(dk, dir) == {n \in DOMAIN dk[dir] : dk[dir][n].kind = "file"}

\* the subdirectories os.walk descends into from dir
Subdirs(dk, dir) ==
    IF dir = Root /\ (\E n \in DOMAIN dk[dir] : dk[dir][n].kind = "dir")
    THEN <<Sub>> ELSE <<>>

Range(seq) == {seq[k] : k \in 1..Len(seq)}

\* line 122 without the sort: the listing in the order the operating system gives
SortedByNaturalKeysUnsorted(names) ==
    {s \in [1..Cardinality(names) -> names] : Range(s) = names}

\* sorted(files, key=natural_keys): a stable sort of a listing whose order the
\* operating system chooses, so names with equal keys come in either order
SortedByNaturalKeys(names) ==
    {s \in [1..Cardinality(names) -> names] :
        /\ Range(s) = names
        /\ \A a, b \in 1..Cardinality(names) :
              a < b => ~NaturalLess(s[b], s[a])}

(***************************************************************************)
(* The inputs: configurations and initial directory contents.              *)
(***************************************************************************)
ExtJ == <<".", "j">>
ExtP == <<".", "p">>
ExtTJ == <<".", "t", ".", "j">>

Config(dir, d, exts, init, st, y) ==
    [target_dir |-> dir, digit |-> d, extensions |-> exts,
     initial_number |-> init, step |-> st, yes |-> y]

\* configurations that pass validation, run without the prompt
ValidConfigs ==
    { Config("tree", 3, {ExtJ}, 1, 1, "True"),
      Config("tree", 3, {ExtJ}, 1, 2, "True"),
      Config("tree", 3, {ExtJ, ExtP}, 0, 1, "True"),
      Config("tree", 3, {ExtJ}, 999, 1, "True"),
      Config("tree", 3, {ExtTJ}, 1, 1, "True") }

\* every combination of good and bad values of the six parameters
AnyConfigs ==
    { Config(dir, d, exts, init, st, y) :
        dir \in {"tree", "missing"}, d \in {2, 3, 9, 10},
        exts \in {{ExtJ}, {ExtJ, <<"j">>}, {<<"j">>, <<"p">>}}, init \in {-1, 0, 1},
        st \in {-1, 0, 1}, y \in {"True", "False", "y"} }

\* names a directory may hold when rename starts
NamePool ==
    { <<"a", "2", ".", "j">>, <<"a", "1", "0", ".", "j">>, <<"x", ".", "j">>,
      <<"0", "0", "1", ".", "j">>, <<"0", "0", "2", ".", "j">>,
      <<"0", "0", "3", ".", "j">>, <<"1", ".", "j">>,
      <<".", "j">>, <<"0", "0", "1">>,
      <<"a", ".", "p">>,
      <<"a", ".", "t", ".", "j">>, <<"1", "0", "0", "0", ".", "j">> }

\* names the subdirectory of the root may have
SubdirNames == { <<"b">>, <<"0", "0", "2", ".", "j">> }

\* contents the subdirectory may have
SubContents ==
    { {}, {<<"a", "2", ".", "j">>} }

\* the disk holding the given files, every file identified by its first path
MakeDisk(rootFiles, subName, subFiles) ==
    [d \in Dirs |->
        IF d = Root
        THEN [n \in rootFiles \cup {subName} |->
                 IF n = subName THEN [kind |-> "dir", id |-> Join(Root, n)]
                 ELSE [kind |-> "file", id |-> Join(Root, n)]]
        ELSE [n \in subFiles |-> [kind |-> "file", id |-> Join(Sub, n)]]]

FullDisks ==
    { MakeDisk(fs, sn, sf) :
        fs \in {f \in SUBSET NamePool : Cardinality(f) <= MaxFiles},
        sn \in SubdirNames, sf \in SubContents }

SmallDisks ==
    { MakeDisk({<<"a", "2", ".", "j">>, <<"0", "0", "1", ".", "j">>},
               <<"b">>, {<<"a", "2", ".", "j">>}) }

(***************************************************************************)
(* The state of one ImageRenamer and of the tree it works on.              *)
(***************************************************************************)
VARIABLES
    self,         \* the fields __init__ sets
    disk,         \* directory -> name -> [kind, id]
    pc,           \* where rename stands
    run,          \* the number of the run of rename in progress
    results,      \* how each finished run ended
    walk,         \* the directories os.walk has still to yield
    current_dir,  \* the directory of the batch
    filenames,    \* the in-memory list of the batch
    pos,          \* how many files of the batch enumerate_with_step has yielded
    j,            \* the index enumerate_with_step yields next
    local,        \* filename and dst_filename of the iteration in progress
    bar,          \* calls of bar() in the batch
    asked,        \* the answers ask() returned in the run, in order
    logged,       \* logger.error calls of the run, in order
    calls,        \* every os.rename call, in order
    batch0        \* the list and the files' identities when the batch started

vars == <<self, disk, pc, run, results, walk, current_dir, filenames, pos, j,
          local, bar, asked, logged, calls, batch0>>

NoLocal == [filename |-> Join(Root, <<>>), dst_filename |-> Join(Root, <<>>)]

Init ==
    /\ \/ self \in ValidConfigs /\ disk \in FullDisks
       \/ self \in AnyConfigs /\ disk \in SmallDisks
    /\ pc = "start"
    /\ run = 1
    /\ results = <<>>
    /\ walk = <<>>
    /\ current_dir = Root
    /\ filenames = <<>>
    /\ pos = 0
    /\ j = 0
    /\ local = NoLocal
    /\ bar = 0
    /\ asked = <<>>
    /\ logged = <<>>
    /\ calls = <<>>
    /\ batch0 = <<>>

(***************************************************************************)
(* validator.*: the checks _input_is_valid applies.                        *)
(***************************************************************************)
is_dir(dir) == dir = "tree"

is_in_range(n, lo, hi) == lo <= n /\ n <= hi

is_extension(e) == Len(e) > 0 /\ e[1] = "."

is_positive_number(n) == n > 0

is_bool(y) == y \in {"True", "False"}

\* lines 64-67: one logger.error call for every extension that fails the check
ExtensionErrors(exts) ==
    [k \in 1..Cardinality({e \in exts : ~is_extension(e)}) |-> "extensions"]

\* _input_is_valid returning at the first failed check
ValidationErrorsShortCircuit(cfg) ==
    IF ~is_dir(cfg.target_dir) THEN <<"target_dir">>
    ELSE IF ~is_in_range(cfg.digit, 3, 9) THEN <<"digit">>
    ELSE IF \E e \in cfg.extensions : ~is_extension(e) THEN <<"extensions">>
    ELSE IF ~(cfg.initial_number = 0) /\ ~is_positive_number(cfg.initial_number)
         THEN <<"initial_number">>
    ELSE IF ~is_positive_number(cfg.step) THEN <<"step">>
    ELSE IF ~is_bool(cfg.yes) THEN <<"yes">>
    ELSE <<>>

\* the logger.error calls of _input_is_valid, in the order of its checks
ValidationErrors(cfg) ==
    (IF ~is_dir(cfg.target_dir) THEN <<"target_dir">> ELSE <<>>)
    \o (IF ~is_in_range(cfg.digit, 3, 9) THEN <<"digit">> ELSE <<>>)
    \o ExtensionErrors(cfg.extensions)
    \o (IF ~(cfg.initial_number = 0) /\ ~is_positive_number(cfg.initial_number)
        THEN <<"initial_number">> ELSE <<>>)
    \o (IF ~is_positive_number(cfg.step) THEN <<"step">> ELSE <<>>)
    \o (IF ~is_bool(cfg.yes) THEN <<"yes">> ELSE <<>>)

\* _input_is_valid: is_valid starts True and every failed check clears it
input_is_valid(cfg) == ValidationErrors(cfg) = <<>>

(***************************************************************************)
(* rename, up to the directory walk.                                       *)
(***************************************************************************)
Return(how) ==
    /\ pc' = "returned"
    /\ results' = Append(results, how)

\* lines 98-105 without the return of line 101
ValidateUnchecked ==
    /\ pc = "start"
    /\ logged' = logged \o ValidationErrors(self)
    /\ pc' = "confirm"
    /\ walk' = <<Root>>
    /\ UNCHANGED <<self, disk, run, results, current_dir, filenames, pos, j,
                   local, bar, asked, calls, batch0>>

\* lines 98-105: an invalid input ends the run; otherwise the walk is set up
Validate ==
    /\ pc = "start"
    /\ logged' = logged \o ValidationErrors(self)
    /\ IF ~input_is_valid(self)
       THEN Return("invalid") /\ UNCHANGED walk
       ELSE pc' = "confirm" /\ walk' = <<Root>> /\ UNCHANGED results
    /\ UNCHANGED <<self, disk, run, current_dir, filenames, pos, j, local, bar,
                   asked, calls, batch0>>

\* lines 107-113 with yes set: no prompt
SkipPrompt ==
    /\ pc = "confirm"
    /\ self.yes # "False"
    /\ pc' = "walk"
    /\ UNCHANGED <<self, disk, run, results, walk, current_dir, filenames, pos,
                   j, local, bar, asked, logged, calls, batch0>>

\* lines 107-113 without the return of line 111
AskIgnored(user_response) ==
    /\ pc = "confirm"
    /\ self.yes = "False"
    /\ asked' = Append(asked, user_response)
    /\ pc' = "walk"
    /\ UNCHANGED <<self, disk, run, results, walk, current_dir, filenames, pos,
                   j, local, bar, logged, calls, batch0>>

\* lines 107-113 with yes unset: ask() is called once and NO ends the run
Ask(user_response) ==
    /\ pc = "confirm"
    /\ self.yes = "False"
    /\ asked' = Append(asked, user_response)
    /\ IF user_response = "NO"
       THEN Return("declined")
       ELSE pc' = "walk" /\ UNCHANGED results
    /\ UNCHANGED <<self, disk, run, walk, current_dir, filenames, pos, j, local,
                   bar, logged, calls, batch0>>

(***************************************************************************)
(* The directory walk, lines 115-131 and 160-165.                           *)
(***************************************************************************)
\* lines 121-125 without the test of line 123
BatchListsUnfiltered(dk, dir, exts) ==
    {[k \in 1..Len(s) |-> Join(dir, s[k])] : s \in SortedByNaturalKeys(Files(dk, dir))}

\* lines 121-125: the matching files of a directory, in natural order, as paths
BatchLists(dk, dir, exts) ==
    LET matching == {n \in Files(dk, dir) : EndsWithAny(n, exts)}
    IN  {[k \in 1..Len(s) |-> Join(dir, s[k])] : s \in SortedByNaturalKeys(matching)}

\* line 134: enumerate_with_step is started at self.initial_number
StartEnumerateAtZero(start) == 0

StartEnumerate(start) == start

\* line 121 missing: the list of the directory before is kept and added to
NewListCarried(old, list) == old \o list

\* line 121: filenames = [], the list of every directory starts empty
NewList(old, list) == list

\* lines 127-131 with return in the place of continue
AfterListingStops(list) == IF list = <<>> THEN "returned" ELSE "batch"

\* lines 127-131: a directory without matching files is passed over
AfterListing(list) == IF list = <<>> THEN "walk" ELSE "batch"

\* os.walk yields the next directory, top down; an empty batch is passed over
WalkNext ==
    /\ pc = "walk"
    /\ walk # <<>>
    /\ LET dir == Head(walk) IN
        /\ walk' = Subdirs(disk, dir) \o Tail(walk)
        /\ current_dir' = dir
        /\ \E list \in BatchLists(disk, dir, self.extensions) :
            /\ filenames' = NewList(filenames, list)
            /\ batch0' = [k \in 1..Len(list) |->
                             [path |-> list[k],
                              id |-> disk[dir][list[k].name].id]]
            /\ pc' = AfterListing(list)
    /\ pos' = 0
    /\ j' = StartEnumerate(self.initial_number)
    /\ bar' = 0
    /\ UNCHANGED <<self, disk, run, results, local, asked, logged, calls>>

\* line 165: the walk is exhausted and rename returns
WalkEnd ==
    /\ pc = "walk"
    /\ walk = <<>>
    /\ Return("finished")
    /\ UNCHANGED <<self, disk, run, walk, current_dir, filenames, pos, j, local,
                   bar, asked, logged, calls, batch0>>

(***************************************************************************)
(* One batch: the loop of lines 133-158.                                   *)
(***************************************************************************)
\* stems gen_random_filename draws from
RandomStems == { <<"x">>, <<"y">> }

\* utils.gen_random_filename: the paths it may return, a random stem with the
\* given extension that no entry of the directory has at the time of the call
gen_random_filename(dk, dir, extension) ==
    {Join(dir, stem \o extension) : stem \in RandomStems} \ 
        {Join(dir, n) : n \in DOMAIN dk[dir]}

\* utils.enumerate_with_step: the index that follows jj
NextIndex(jj, st) == jj + st

\* lines 135-137 with the index off by one
DstFilenameOffByOne(dir, jj, digit, filename) ==
    Join(dir, FormatIndex(jj + 1, digit) \o Splitext(filename.name))

\* lines 135-137: the target path of filename under index jj
DstFilename(dir, jj, digit, filename) ==
    Join(dir, FormatIndex(jj, digit) \o Splitext(filename.name))

\* line 148 with the position taken one too low
ListIndexOffByOne(list, x) ==
    (CHOOSE k \in 1..Len(list) : list[k] = x /\ \A m \in 1..(k - 1) : list[m] # x) - 1

\* line 148: list.index(x), the first position holding x
ListIndex(list, x) ==
    CHOOSE k \in 1..Len(list) : list[k] = x /\ \A m \in 1..(k - 1) : list[m] # x

\* line 154: filenames[existed_file_index] = tmp_filename
MarkDisplacedStale(list, idx, tmp) == list

MarkDisplaced(list, idx, tmp) == [list EXCEPT ![idx] = tmp]

\* the record of one os.rename(src, dst) call
Call(kind, src, dst, idx) ==
    [kind |-> kind, src |-> src, dst |-> dst, idx |-> idx,
     existed |-> Exists(disk, dst),
     id |-> IF Exists(disk, src) THEN disk[src.dir][src.name].id ELSE src,
     run |-> run, dir |-> current_dir, pos |-> pos]

\* the file the loop is at, and its target
Filename == filenames[pos + 1]
Dst == DstFilename(current_dir, j, self.digit, Filename)

InLoop == pc = "batch" /\ pos < Len(filenames)

\* lines 141-142 and 158, and the step of enumerate_with_step
Advance ==
    /\ bar' = bar + 1
    /\ pos' = pos + 1
    /\ j' = NextIndex(j, self.step)

\* lines 139-142 without the bar() of line 141
AlreadyRenamedNoTick ==
    /\ InLoop
    /\ Filename = Dst
    /\ pos' = pos + 1
    /\ j' = NextIndex(j, self.step)
    /\ UNCHANGED <<self, disk, pc, run, results, walk, current_dir, filenames,
                   local, bar, asked, logged, calls, batch0>>

\* lines 139-142: the file has its target name already
AlreadyRenamed ==
    /\ InLoop
    /\ Filename = Dst
    /\ Advance
    /\ UNCHANGED <<self, disk, pc, run, results, walk, current_dir, filenames,
                   local, asked, logged, calls, batch0>>

\* lines 144-155 reached without the test of line 140
DisplaceExistedEvenSelf ==
    /\ InLoop
    /\ Exists(disk, Dst)
    /\ Dst \in Range(filenames)
    /\ \E tmp_filename \in gen_random_filename(disk, current_dir,
                                               Splitext(Filename.name)) :
        LET existed_file_index == ListIndex(filenames, Dst) IN
        /\ filenames' = MarkDisplaced(filenames, existed_file_index, tmp_filename)
        /\ calls' = Append(calls, Call("displace", Dst, tmp_filename,
                                       existed_file_index))
        /\ disk' = OsRename(disk, Dst, tmp_filename)
    /\ local' = [filename |-> Filename, dst_filename |-> Dst]
    /\ pc' = "displaced"
    /\ UNCHANGED <<self, run, results, walk, current_dir, pos, j, bar, asked,
                   logged, batch0>>

\* lines 144-155: the target exists and is a file of the list: it is moved to
\* a random name and the list follows it
DisplaceExisted ==
    /\ InLoop
    /\ Filename # Dst
    /\ Exists(disk, Dst)
    /\ Dst \in Range(filenames)
    /\ \E tmp_filename \in gen_random_filename(disk, current_dir,
                                               Splitext(Filename.name)) :
        LET existed_file_index == ListIndex(filenames, Dst) IN
        /\ filenames' = MarkDisplaced(filenames, existed_file_index, tmp_filename)
        /\ calls' = Append(calls, Call("displace", Dst, tmp_filename,
                                       existed_file_index))
        /\ disk' = OsRename(disk, Dst, tmp_filename)
    /\ local' = [filename |-> Filename, dst_filename |-> Dst]
    /\ pc' = "displaced"
    /\ UNCHANGED <<self, run, results, walk, current_dir, pos, j, bar, asked,
                   logged, batch0>>

\* lines 145-152 with continue in the place of the return of line 152
AbortDisappearedContinues ==
    /\ InLoop
    /\ Filename # Dst
    /\ Exists(disk, Dst)
    /\ Dst \notin Range(filenames)
    /\ logged' = logged \o <<"disappeared", "unexpected">>
    /\ pos' = pos + 1
    /\ j' = NextIndex(j, self.step)
    /\ UNCHANGED <<self, disk, pc, run, results, walk, current_dir, filenames,
                   local, bar, asked, calls, batch0>>

\* lines 145-152: the target exists and is no file of the list: rename returns
AbortDisappeared ==
    /\ InLoop
    /\ Filename # Dst
    /\ Exists(disk, Dst)
    /\ Dst \notin Range(filenames)
    /\ logged' = logged \o <<"disappeared", "unexpected">>
    /\ Return("aborted")
    /\ UNCHANGED <<self, disk, run, walk, current_dir, filenames, pos, j, local,
                   bar, asked, calls, batch0>>

\* lines 157-158 for the given source and target
RenameTo(src, dst) ==
    IF RenameRaises(disk, src, dst)
    THEN /\ Return("raised")
         /\ UNCHANGED <<disk, calls, bar, pos, j>>
    ELSE /\ disk' = OsRename(disk, src, dst)
         /\ calls' = Append(calls, Call("final", src, dst, pos + 1))
         /\ Advance
         /\ pc' = "batch"
         /\ UNCHANGED results

\* lines 157-158 reached without the test of line 145
RenameFileUnchecked ==
    /\ \/ InLoop /\ Filename # Dst
          /\ RenameTo(Filename, Dst)
       \/ pc = "displaced"
          /\ RenameTo(local.filename, local.dst_filename)
    /\ local' = NoLocal
    /\ UNCHANGED <<self, run, walk, current_dir, filenames, asked, logged, batch0>>

\* lines 157-158: the file is renamed to its target, which nothing occupies or
\* whose occupant has just been displaced
RenameFile ==
    /\ \/ InLoop /\ Filename # Dst /\ ~Exists(disk, Dst)
          /\ RenameTo(Filename, Dst)
       \/ pc = "displaced"
          /\ RenameTo(local.filename, local.dst_filename)
    /\ local' = NoLocal
    /\ UNCHANGED <<self, run, walk, current_dir, filenames, asked, logged, batch0>>

\* lines 160-163: the batch is through and the walk goes on
BatchEnd ==
    /\ pc = "batch"
    /\ pos = Len(filenames)
    /\ pc' = "walk"
    /\ UNCHANGED <<self, disk, run, results, walk, current_dir, filenames, pos,
                   j, local, bar, asked, logged, calls, batch0>>

\* rename is called again on the same tree with the same configuration
Rerun ==
    /\ pc = "returned"
    /\ run < MaxRuns
    /\ run' = run + 1
    /\ pc' = "start"
    /\ walk' = <<>>
    /\ current_dir' = Root
    /\ filenames' = <<>>
    /\ pos' = 0
    /\ j' = 0
    /\ local' = NoLocal
    /\ bar' = 0
    /\ asked' = <<>>
    /\ logged' = <<>>
    /\ batch0' = <<>>
    /\ UNCHANGED <<self, disk, results, calls>>

Next ==
    \/ Validate
    \/ SkipPrompt
    \/ \E user_response \in {"YES", "NO"} : Ask(user_response)
    \/ WalkNext
    \/ WalkEnd
    \/ AlreadyRenamed
    \/ DisplaceExisted
    \/ AbortDisappeared
    \/ RenameFile
    \/ BatchEnd
    \/ Rerun

Spec == Init /\ [][Next]_vars

(***************************************************************************)
(* Vocabulary of the properties.                                           *)
(***************************************************************************)
\* the os.rename calls of the batch in progress
BatchCalls ==
    {k \in 1..Len(calls) : calls[k].run = run /\ calls[k].dir = current_dir}

\* the loop of the batch has gone through the whole list without abort
BatchComplete == pc = "batch" /\ pos = Len(filenames) /\ filenames # <<>>

\* the target of the file that stood at position k when the batch started
TargetOf(k) ==
    Join(current_dir,
         FormatIndex(self.initial_number + (k - 1) * self.step, self.digit)
            \o Splitext(batch0[k].path.name))

\* the names of dir under which the file identified by id is found
NamesOf(id, dir) == {n \in DOMAIN disk[dir] : disk[dir][n].id = id}

\* C1: when a batch completes, the file that stood at position p of the sorted
\* list is found under pad(initial_number + p*step, digit) + its extension,
\* and under no other name, whatever displacements took place.
C1_EveryFileAtItsTarget ==
    BatchComplete =>
        \A k \in 1..Len(batch0) :
            NamesOf(batch0[k].id, current_dir) = {TargetOf(k).name}

C1_CompletedWithDisplacement ==
    /\ BatchComplete
    /\ Len(batch0) >= 3
    /\ \E k \in BatchCalls : calls[k].kind = "displace"
    /\ \A k \in 1..Len(batch0) :
          NamesOf(batch0[k].id, current_dir) = {TargetOf(k).name}

\* C2: no os.rename call, displacement or final, has a destination that exists
\* when it is made, and no step lowers the number of entries of a directory.
C2_NoRenameOntoExistingPath ==
    [][ /\ \A d \in Dirs :
              Cardinality(DOMAIN disk'[d]) >= Cardinality(DOMAIN disk[d])
        /\ Len(calls') > Len(calls) => ~calls'[Len(calls')].existed ]_vars

C2_DisplacedThenRenamed ==
    \E k \in 1..(Len(calls) - 1) :
        /\ calls[k].kind = "displace" /\ ~calls[k].existed
        /\ calls[k + 1].kind = "final" /\ ~calls[k + 1].existed
        /\ calls[k + 1].dst = calls[k].src

\* C3: after a first run that completed, a second run of rename on the same
\* tree with the same configuration issues no os.rename call.
C3_SecondRunRenamesNothing ==
    (Len(results) >= 1 /\ results[1] = "finished") =>
        \A k \in 1..Len(calls) : calls[k].run = 1

\* C4: when a batch completes, no file is left at a random name: every file
\* displaced in the batch has been renamed from that name to a target since.
C4_NoTemporaryNameRemains ==
    BatchComplete =>
        \A k \in BatchCalls :
            calls[k].kind = "displace" =>
                /\ ~Exists(disk, calls[k].dst)
                /\ \E m \in BatchCalls :
                      /\ m > k
                      /\ calls[m].kind = "final"
                      /\ calls[m].src = calls[k].dst
                      /\ calls[m].id = calls[k].id

C4_TwoDisplacedAndBack ==
    /\ BatchComplete
    /\ Cardinality({k \in BatchCalls : calls[k].kind = "displace"}) >= 2
    /\ \A k \in BatchCalls :
          calls[k].kind = "displace" => ~Exists(disk, calls[k].dst)

\* C5: the file at zero-based position p of the batch is given the index
\* initial_number + p*step: the loop holds that index at position p, every
\* final rename goes to the name made of it, and the file renamed at position
\* p is the one that stood there when the batch started, displaced or not.
C5_IndexOfPosition ==
    /\ pc \in {"batch", "displaced"} =>
          j = self.initial_number + pos * self.step
    /\ \A k \in 1..Len(calls) :
          calls[k].kind = "final" =>
              calls[k].dst.name =
                  FormatIndex(self.initial_number + calls[k].pos * self.step,
                              self.digit) \o Splitext(calls[k].src.name)
    /\ \A k \in BatchCalls :
          calls[k].kind = "final" => calls[k].id = batch0[calls[k].pos + 1].id

C5_DisplacedFileKeepsIndex ==
    /\ self.step = 2
    /\ \E k \in BatchCalls :
          /\ calls[k].kind = "final"
          /\ calls[k].pos = 2
          /\ calls[k].id = batch0[3].id
          /\ \E m \in 1..(k - 1) :
                calls[m].kind = "displace" /\ calls[m].id = calls[k].id

\* C6: a file whose path at the start of the batch is its own target is the
\* source of no rename of the batch and keeps that name.
C6_FileAtOwnTargetUntouched ==
    \A k \in 1..Len(batch0) :
        batch0[k].path = TargetOf(k) =>
            /\ \A m \in BatchCalls : calls[m].id # batch0[k].id
            /\ NamesOf(batch0[k].id, current_dir) = {TargetOf(k).name}

C6_UntouchedAmongRenamed ==
    /\ BatchComplete
    /\ \E k \in 2..Len(batch0) : batch0[k].path = TargetOf(k)
    /\ \E m \in BatchCalls : calls[m].kind = "displace"

\* C7: an entry that is a directory or whose name ends with none of the
\* configured extensions is in no batch and is never renamed: every step leaves
\* it where it is, also when it occupies a target path.
C7_OtherEntriesNeverRenamed ==
    [][ /\ \A k \in 1..Len(filenames') :
              EndsWithAny(filenames'[k].name, self.extensions)
        /\ \A d \in Dirs : \A n \in DOMAIN disk[d] :
              (disk[d][n].kind = "dir" \/ ~EndsWithAny(n, self.extensions)) =>
                  n \in DOMAIN disk'[d] /\ disk'[d][n] = disk[d][n] ]_vars

C7_OtherEntryOccupiesTarget ==
    /\ pc = "returned"
    /\ Len(results) = run /\ results[run] = "aborted"
    /\ disk[Dst.dir][Dst.name].kind = "file"
    /\ ~EndsWithAny(Dst.name, self.extensions)

\* C8: when a check of _input_is_valid fails, rename returns before the walk
\* starts and no os.rename call is ever made.
C8_InvalidInputNoRename ==
    ~input_is_valid(self) =>
        /\ calls = <<>>
        /\ walk = <<>>
        /\ pc \in {"start", "returned"}
        /\ \A k \in 1..Len(results) : results[k] = "invalid"

C8_InvalidInputReturned ==
    /\ ~input_is_valid(self)
    /\ pc = "returned"
    /\ Len(results) = 2
    /\ \E n \in Files(disk, Root) : EndsWithAny(n, self.extensions)

\* C9: when the target exists and is not in the list, that step ends the run
\* with nothing renamed, and nothing is renamed after it: no later file of the
\* batch and no later directory is processed.
C9_InconsistencyAbortsRun ==
    [][ /\ (InLoop /\ Filename # Dst /\ Exists(disk, Dst)
                /\ Dst \notin Range(filenames)) =>
              /\ pc' = "returned"
              /\ results' = Append(results, "aborted")
              /\ disk' = disk /\ calls' = calls /\ pos' = pos /\ walk' = walk
        /\ (pc = "returned" /\ results[Len(results)] = "aborted") =>
              /\ disk' = disk /\ calls' = calls
              /\ pc' = "start" /\ run' = run + 1 ]_vars

C9_AbortedBeforeLaterFiles ==
    /\ pc = "returned"
    /\ Len(results) = run /\ results[run] = "aborted"
    /\ pos + 1 < Len(filenames)
    /\ walk # <<>>
    /\ \E n \in Files(disk, Sub) : EndsWithAny(n, self.extensions)

\* C10: ask() is called at most once in a run, only after a successful
\* validation and before any rename, and never when yes is set; after the
\* answer NO rename has returned without any os.rename call.
C10_PromptGatesRun ==
    /\ Len(asked) <= 1
    /\ self.yes # "False" => asked = <<>>
    /\ asked # <<>> => input_is_valid(self) /\ pc \notin {"start", "confirm"}
    /\ asked = <<"NO">> =>
          /\ pc = "returned"
          /\ results[run] = "declined"
          /\ \A k \in 1..Len(calls) : calls[k].run # run
    /\ (self.yes = "False" /\ pc \in {"walk", "batch", "displaced"}) =>
          asked = <<"YES">>
    /\ (self.yes = "False" /\ \E k \in 1..Len(calls) : calls[k].run = run) =>
          asked = <<"YES">>

C10_DeclinedTwice ==
    /\ asked = <<"NO">>
    /\ pc = "returned"
    /\ results = <<"declined", "declined">>
    /\ \E n \in Files(disk, Root) : EndsWithAny(n, self.extensions)

\* C11: in a batch no file is the source of two final renames, and no file is
\* the source of two displacements.
C11_AtMostOneRenameOfEachKind ==
    \A k, m \in BatchCalls :
        (k # m /\ calls[k].kind = calls[m].kind) => calls[k].id # calls[m].id

C11_DisplacedOnceRenamedOnce ==
    /\ BatchComplete
    /\ \E k, m \in BatchCalls :
          /\ calls[k].kind = "displace" /\ calls[m].kind = "final"
          /\ calls[k].id = calls[m].id
    /\ Cardinality({k \in BatchCalls : calls[k].kind = "final"}) >= 3

\* C12 as stated: after every os.rename call of a batch, displacement or final,
\* the list entry at the position of the renamed file is the path the file has.
C12_ListInSyncAfterEveryRename ==
    (pc \in {"batch", "displaced"} /\ Len(calls) \in BatchCalls) =>
        NamesOf(calls[Len(calls)].id, current_dir)
            = {filenames[calls[Len(calls)].idx].name}

\* C12 as amended: after a displacement the list entry at the position of the
\* displaced file is the random path the file has, and the entry of every file
\* that has not had its final rename is the path the file has; the entry of a
\* file that has had its final rename is left at the path it was renamed from.
C12_PendingEntriesInSync ==
    /\ pc = "displaced" =>
          /\ filenames[calls[Len(calls)].idx] = calls[Len(calls)].dst
          /\ NamesOf(calls[Len(calls)].id, current_dir)
                = {filenames[calls[Len(calls)].idx].name}
    /\ pc \in {"batch", "displaced"} =>
          /\ \A k \in (pos + 1)..Len(filenames) :
                NamesOf(batch0[k].id, current_dir) = {filenames[k].name}
          /\ \A k \in BatchCalls :
                calls[k].kind = "final" => filenames[calls[k].idx] = calls[k].src

C12_DisplacedEntryFollowed ==
    /\ pc = "displaced"
    /\ pos >= 1
    /\ filenames[calls[Len(calls)].idx] = calls[Len(calls)].dst
    /\ \E k \in BatchCalls : calls[k].kind = "final"

\* C13: the position filenames.index finds for the occupant of the target is
\* behind the position of the file being processed.
C13_DisplacedFileIsPending ==
    \A k \in 1..Len(calls) :
        calls[k].kind = "displace" => calls[k].idx > calls[k].pos + 1

C13_LookupPastProcessedEntries ==
    \E k \in BatchCalls :
        /\ calls[k].kind = "displace"
        /\ calls[k].pos >= 1
        /\ calls[k].idx > calls[k].pos + 1

\* C14: a batch is processed in the natural order of the names its files had
\* at its start: the list taken at the start is in natural order, the file the
\* loop is at is the one that stood at that position then, under whatever name
\* it has now, and the final renames follow the positions.
C14_ProcessedInOriginalOrder ==
    /\ \A a, b \in 1..Len(batch0) :
          a < b => ~NaturalLess(batch0[b].path.name, batch0[a].path.name)
    /\ (InLoop \/ pc = "displaced") =>
          NamesOf(batch0[pos + 1].id, current_dir) = {filenames[pos + 1].name}
    /\ \A k, m \in BatchCalls :
          (calls[k].kind = "final" /\ calls[m].kind = "final" /\ k < m) =>
              /\ calls[k].pos < calls[m].pos
              /\ calls[k].id = batch0[calls[k].pos + 1].id
              /\ calls[m].id = batch0[calls[m].pos + 1].id

C14_NaturalOrderWithDetour ==
    /\ BatchComplete
    /\ \E a, b \in 1..Len(batch0) :
          a < b /\ TextLess(batch0[b].path.name, batch0[a].path.name)
    /\ \E k, m \in BatchCalls :
          /\ k < m
          /\ calls[k].kind = "displace" /\ calls[m].kind = "final"
          /\ calls[m].src = calls[k].dst

\* the run has ended in the inconsistency branch
Aborted == pc = "returned" /\ Len(results) = run /\ results[run] = "aborted"

\* C15 as stated: bar() has been called once for every file a branch was taken
\* for, the inconsistency branch included.
C15_TickForEveryBranch ==
    /\ pc \in {"batch", "displaced"} => bar = pos
    /\ Aborted => bar = pos + 1

\* C15 as amended: bar() is called once for every file that takes the no-op,
\* the plain rename or the displacement and rename; the inconsistency branch
\* returns without calling it.
C15_TickForEveryFileProcessed ==
    /\ bar = pos
    /\ BatchComplete => bar = Len(batch0)
    /\ Aborted => bar < Len(filenames)

C15_ThreeBranchesThreeTicks ==
    /\ BatchComplete
    /\ bar = 3
    /\ Cardinality({k \in BatchCalls : calls[k].kind = "final"}) = 2
    /\ Cardinality({k \in BatchCalls : calls[k].kind = "displace"}) = 1

\* C16: the targets of two distinct positions of a batch differ, also when an
\* index has more decimal digits than digit.
C16_TargetsDistinct ==
    \A a, b \in 1..Len(batch0) : a # b => TargetOf(a) # TargetOf(b)

C16_WiderThanDigit ==
    /\ BatchComplete
    /\ Len(batch0) >= 3
    /\ Len(FormatIndex(self.initial_number + self.step, self.digit)) > self.digit
    /\ Exists(disk, TargetOf(2)) /\ Exists(disk, TargetOf(3))

\* C17: every os.rename call of a batch has its source and its destination in
\* the directory of the batch, no step changes another directory, and the list
\* of a batch holds the matching files of its own directory only.
C17_BatchesIndependent ==
    /\ [](/\ \A k \in 1..Len(calls) :
                calls[k].src.dir = calls[k].dir /\ calls[k].dst.dir = calls[k].dir
          /\ \A k \in 1..Len(filenames) : filenames[k].dir = current_dir)
    /\ [][ /\ \A d \in Dirs : d # current_dir => disk'[d] = disk[d]
           /\ (pc = "walk" /\ walk # <<>>) =>
                 Range(filenames') =
                     {Join(current_dir', n) :
                         n \in {f \in Files(disk, current_dir') :
                                   EndsWithAny(f, self.extensions)}} ]_vars

C17_RenamedInBothDirectories ==
    /\ pc = "batch"
    /\ current_dir = Sub
    /\ Files(disk, Root) # {}
    /\ \E k, m \in 1..Len(calls) :
          /\ calls[k].run = run /\ calls[m].run = run
          /\ calls[k].dir = Root /\ calls[m].dir = Sub

\* the run has walked the whole tree
Finished == pc = "returned" /\ Len(results) = run /\ results[run] = "finished"

\* n is the target name of some position of a batch of its directory
IsTargetName(n, dir) ==
    \E p \in 0..Cardinality(DOMAIN disk[dir]) :
        n = FormatIndex(self.initial_number + p * self.step, self.digit)
               \o Splitext(n)

\* C18: a directory without matching files ends nothing: the step that lists
\* it renames nothing and leaves the walk going with the directories after it,
\* so when the run has finished the matching files of every directory have
\* target names.
C18_EmptyBatchPassedOver ==
    /\ [](Finished =>
             \A d \in Dirs : \A n \in Files(disk, d) :
                 EndsWithAny(n, self.extensions) => IsTargetName(n, d))
    /\ [][ (/\ pc = "walk" /\ walk # <<>>
            /\ \A n \in Files(disk, Head(walk)) :
                  ~EndsWithAny(n, self.extensions)) =>
               /\ pc' = "walk"
               /\ walk' = Subdirs(disk, Head(walk)) \o Tail(walk)
               /\ disk' = disk /\ calls' = calls /\ results' = results ]_vars

C18_RenamedAfterEmptyDirectory ==
    /\ Finished
    /\ run = 1
    /\ Files(disk, Root) # {}
    /\ \A n \in Files(disk, Root) : ~EndsWithAny(n, self.extensions)
    /\ \E k \in 1..Len(calls) : calls[k].dir = Sub

\* how many logger.error calls of the run carry the tag
Count(tag) == Cardinality({k \in 1..Len(logged) : logged[k] = tag})

\* C19: once _input_is_valid has run, every check that fails has its one error
\* logged, whatever failed before it (one for every bad extension), a check
\* that passes has none, and the run ended as invalid exactly when there is one.
C19_EveryCheckReported ==
    pc # "start" =>
        /\ Count("target_dir") = IF is_dir(self.target_dir) THEN 0 ELSE 1
        /\ Count("digit") = IF is_in_range(self.digit, 3, 9) THEN 0 ELSE 1
        /\ Count("extensions") =
              Cardinality({e \in self.extensions : ~is_extension(e)})
        /\ Count("initial_number") =
              IF self.initial_number = 0 \/ is_positive_number(self.initial_number)
              THEN 0 ELSE 1
        /\ Count("step") = IF is_positive_number(self.step) THEN 0 ELSE 1
        /\ Count("yes") = IF is_bool(self.yes) THEN 0 ELSE 1
        /\ (pc = "returned" /\ results[run] = "invalid") <=>
              (\E k \in 1..Len(logged) :
                  logged[k] \notin {"disappeared", "unexpected"})

C19_AllChecksFailed ==
    /\ pc = "returned"
    /\ results[run] = "invalid"
    /\ Len(logged) = 7
    /\ Count("extensions") = 2

\* what is left of the batch: two steps for a file, one once it is displaced
Measure == 2 * (Len(filenames) - pos) - (IF pc = "displaced" THEN 1 ELSE 0)

FinalCalls == {k \in BatchCalls : calls[k].kind = "final"}
DisplaceCalls == {k \in BatchCalls : calls[k].kind = "displace"}

\* C20: a batch of n files is one pass over the list: the list keeps its
\* length, every step of the batch moves on (to the next position, or from the
\* displacement to the rename of the same position), no position has two final
\* renames, and there are at most n final renames and at most n - 1
\* displacements.
C20_SinglePass ==
    /\ [](/\ Len(filenames) = Len(batch0)
          /\ pos <= Len(filenames)
          /\ Cardinality(FinalCalls) <= pos
          /\ \A k, m \in FinalCalls : k # m => calls[k].pos # calls[m].pos
          /\ Cardinality(DisplaceCalls) <= Len(filenames) - 1
                \/ DisplaceCalls = {})
    /\ [][ (pc = "batch" \/ pc = "displaced") =>
              \/ pc' \in {"walk", "returned"} /\ pos' = pos
              \/ /\ pc' \in {"batch", "displaced"}
                 /\ Measure' < Measure
                 /\ pos' \in {pos, pos + 1} ]_vars

C20_PassWithMostDisplacements ==
    /\ BatchComplete
    /\ Len(filenames) >= 3
    /\ Cardinality(FinalCalls) = Len(filenames)
    /\ Cardinality(DisplaceCalls) = Len(filenames) - 1

====
